---- MODULE Spec2Model ----
(***************************************************************************)
(* Circle Gauntlet (src/src/main.rs): the obstacle layout loop and the     *)
(* game loop of main().                                                    *)
(*                                                                         *)
(* Numbers.  The program computes in f32.  The model keeps every stored    *)
(* coordinate on a grid of 1/48 (positions: 1/48 of the play field's unit, *)
(* velocities: 1/48 unit per second) and the frame time on a grid of 1/4   *)
(* second.  An expression is evaluated exactly and rounded to the nearest  *)
(* grid value when it is stored, as f32 rounds to the nearest float.  The  *)
(* result of normalizing a zero-length vector, which is NaN in f32, is the *)
(* value NaNVec; it propagates through + and * and every comparison with   *)
(* it is false, as in IEEE arithmetic.                                     *)
(***************************************************************************)
EXTENDS Integers, Sequences, FiniteSets, TLC

VARIABLES
    pc,              \* "layout" (lines 109-130), "gameloop" (139-312), "exit" (313)
    rng,             \* thread_rng: <<stream, number of values drawn>>
    pos,             \* the layout loop's candidate position
    prev_positions,  \* accepted obstacle positions, in insertion order
    obstacles,       \* the world's Obstacle entities (their Position), in order
    player_pos,      \* the Player entity's Position
    vel,             \* the Player entity's Velocity
    life,            \* remaining life
    delta,           \* the frame time of the latest loop iteration, in 1/4 s
    reason,          \* how the game loop was left: "None", "Quit", "Won", "Died"
    events           \* audio cues and draws issued by the latest loop iteration

vars == <<pc, rng, pos, prev_positions, obstacles, player_pos, vel, life, delta,
          reason, events>>

----------------------------------------------------------------------------
(* Constants of the program, on the model's grid.                          *)

Unit == 48                 \* grid steps per unit of length (and of speed)
DeltaDen == 4              \* grid steps per second of frame time

GOAL_RADIUS == 6           \* 1/8
OBSTACLE_RADIUS == 4       \* 1/12
PLAYER_RADIUS == 3         \* 1/16
LIFE_MAX == 10

NumObstacles == 16         \* for _ in 0..16

\* (mutant of obstacle_spacing: 10. in place of 0.1)
obstacle_spacing_ten == <<10, 1>>

obstacle_spacing == <<1, 10>>   \* 0.1, a squared distance, as <<num, den>>

max_vel == 24              \* 0.5
win_vel == <<216, 5>>      \* 0.9 = 43.2 grid steps, as <<num, den>>
bounce_vel == 36           \* 0.75
input_scale == 48          \* 1.
drag == <<4, 5>>           \* 0.8, as <<num, den>>

----------------------------------------------------------------------------
(* Vectors (glm::Vec2).                                                    *)

Vec(x, y) == [x |-> x, y |-> y, nan |-> FALSE]
NaNVec == [x |-> 0, y |-> 0, nan |-> TRUE]

Abs(a) == IF a < 0 THEN -a ELSE a
Sgn(a) == IF a < 0 THEN -1 ELSE IF a > 0 THEN 1 ELSE 0

\* a / b rounded to the nearest integer (b > 0), halves away from zero
RoundDiv(a, b) == Sgn(a) * ((2 * Abs(a) + b) \div (2 * b))

RECURSIVE SqrtSearch(_, _, _)
SqrtSearch(n, lo, hi) ==
    IF lo >= hi THEN lo
    ELSE LET mid == (lo + hi + 1) \div 2
         IN  IF mid * mid <= n THEN SqrtSearch(n, mid, hi)
                               ELSE SqrtSearch(n, lo, mid - 1)

\* floor of the square root of n >= 0
ISqrt(n) == SqrtSearch(n, 0, n)

\* sqrt(p / q) rounded to the nearest integer (p >= 0, q > 0)
RoundSqrt(p, q) == (ISqrt((4 * p) \div q) + 1) \div 2

Dot(a, b) == a.x * b.x + a.y * b.y
Mag2(a) == Dot(a, a)                      \* magnitude squared (a not NaN)

VAdd(a, b) == IF a.nan \/ b.nan THEN NaNVec ELSE Vec(a.x + b.x, a.y + b.y)
VSub(a, b) == IF a.nan \/ b.nan THEN NaNVec ELSE Vec(a.x - b.x, a.y - b.y)

\* a * (num / den), rounded to the grid
VScale(a, num, den) ==
    IF a.nan THEN NaNVec ELSE Vec(RoundDiv(a.x * num, den), RoundDiv(a.y * num, den))

RECURSIVE GCD(_, _)
GCD(a, b) == IF b = 0 THEN a ELSE GCD(b, a % b)

\* a.normalize() * m where m * m = msq[1] / msq[2], rounded to the grid.
\* normalize() divides by the magnitude: 0/0 = NaN for the zero vector.
\* (The components are first divided by their common divisor, which leaves
\* the direction as it is and keeps the products small.)
NormalizeTimes(a, msq) ==
    IF a.nan \/ (a.x = 0 /\ a.y = 0) THEN NaNVec
    ELSE LET g == GCD(Abs(a.x), Abs(a.y))
             x == a.x \div g
             y == a.y \div g
             n == x * x + y * y
         IN  Vec(Sgn(x) * RoundSqrt(x * x * msq[1], n * msq[2]),
                 Sgn(y) * RoundSqrt(y * y * msq[1], n * msq[2]))

\* distance2(a, b); defined for vectors that are not NaN
Distance2(a, b) == (a.x - b.x) * (a.x - b.x) + (a.y - b.y) * (a.y - b.y)

\* distance(a, b) < r: false when either vector is NaN
DistanceLess(a, b, r) == ~a.nan /\ ~b.nan /\ Distance2(a, b) < r * r

----------------------------------------------------------------------------
(* World set-up and the obstacle layout loop (lines 97-130).               *)

goal_start_pos == Vec(36, -36)       \* (0.75, -0.75)
player_start_pos == Vec(-36, 36)     \* (-0.75, 0.75)

\* (mutant of MinDistance2: only the last accepted position is looked at)
DistanceToLast2(p, prev) ==
    IF prev = <<>> THEN 500 * Unit * Unit ELSE Distance2(p, prev[Len(prev)])

\* The smallest distance2 from p to a position of prev, 500. for an empty prev
\* (lines 117-121)
MinDistance2(p, prev) ==
    IF prev = <<>> THEN 500 * Unit * Unit
    ELSE LET ds == {Distance2(p, prev[i]) : i \in 1..Len(prev)}
         IN  CHOOSE m \in ds : \A e \in ds : m <= e

\* (mutant of LessThanSpacing: obstacle_spacing is taken for a distance, not
\* for a squared distance)
LessThanSpacingAsDistance(d2) ==
    d2 * obstacle_spacing[2] * obstacle_spacing[2]
        < obstacle_spacing[1] * obstacle_spacing[1] * Unit * Unit

\* d2 < obstacle_spacing, for a squared distance d2 on the grid
LessThanSpacing(d2) ==
    d2 * obstacle_spacing[2] < obstacle_spacing[1] * Unit * Unit

\* The condition of the while loop (lines 115-124): the candidate is rejected
Rejected(p, prev) ==
    \/ LessThanSpacing(Distance2(p, player_start_pos))
    \/ LessThanSpacing(Distance2(p, goal_start_pos))
    \/ LessThanSpacing(MinDistance2(p, prev))

(* thread_rng.  A generator is a fixed stream of values once it is seeded; *)
(* rng = <<seed, n>> has produced n values of the stream of its seed.      *)
(* rng.gen::<f32>() is a value of [0, 1), here g / RngRange for a g in     *)
(* 0..RngRange-1.  The stream of seed 0 is written out; the streams of the *)
(* other seeds are pseudo-random.                                          *)
RngRange == 2 * Unit

Stream0 ==
    << 18, 78,  78, 18,  24, 72,  28, 68,  73, 23,  70, 28,   8, 40,   8, 24,
        8,  8,  24,  8,  40,  8,  56,  4,  22, 22,  12, 84,  84, 12,  24, 24,
       88, 56,  88, 72,  88, 88,  72, 88,  56, 88,  40, 92,  72, 72 >>

Gen(r) ==
    IF r[1] = 0 THEN Stream0[(r[2] % Len(Stream0)) + 1]
    ELSE (((r[1] * 29 + 7) * (r[2] + 1) * (r[2] + 3) + r[2] * 31 + r[1] * 17)
             % 9973) % RngRange

\* rng.gen::<f32>() * 2.0 - 1.0, on the grid
Coord(g) == (g * 2 * Unit) \div RngRange - Unit

\* line 126: a new candidate from two values of the generator
Sample ==
    /\ pc = "layout"
    /\ Rejected(pos, prev_positions)
    /\ pos' = Vec(Coord(Gen(rng)), Coord(Gen(<<rng[1], rng[2] + 1>>)))
    /\ rng' = <<rng[1], rng[2] + 2>>
    /\ UNCHANGED <<pc, prev_positions, obstacles, player_pos, vel, life, delta,
                   reason, events>>

\* lines 128-129 and, for the next iteration, line 114; after the 16th
\* obstacle the program goes on to the game loop
Accept ==
    /\ pc = "layout"
    /\ ~Rejected(pos, prev_positions)
    /\ prev_positions' = Append(prev_positions, pos)
    /\ obstacles' = Append(obstacles, pos)
    /\ pos' = player_start_pos
    /\ pc' = IF Len(prev_positions) + 1 = NumObstacles THEN "gameloop" ELSE "layout"
    /\ UNCHANGED <<rng, player_pos, vel, life, delta, reason, events>>

----------------------------------------------------------------------------
(* The game loop (lines 139-312).  One action is one iteration of the      *)
(* loop: the frame time k (in 1/4 s) and button_processor.direction after  *)
(* the frame's events, d, are the iteration's inputs.                      *)

\* (mutant of DetectCollision: the player's radius is left out of the test)
DetectCollisionNoPlayerRadius(p, obs) ==
    LET hits == {i \in 1..Len(obs) : DistanceLess(p, obs[i], OBSTACLE_RADIUS)}
    IN  IF hits = {} THEN <<>>
        ELSE <<obs[CHOOSE i \in hits : \A j \in hits : j <= i]>>

\* lines 165-174: Some(position) of the last overlapping obstacle scanned,
\* as <<position>>, or None, as <<>>
DetectCollision(p, obs) ==
    LET hits == {i \in 1..Len(obs) :
                    DistanceLess(p, obs[i], PLAYER_RADIUS + OBSTACLE_RADIUS)}
    IN  IF hits = {} THEN <<>>
        ELSE <<obs[CHOOSE i \in hits : \A j \in hits : j <= i]>>

\* line 189: vel *= 1.0 - drag * delta
ApplyDrag(v, k) ==
    VScale(v, drag[2] * DeltaDen - drag[1] * k, drag[2] * DeltaDen)

\* line 193: vel += direction * input_scale * delta
ApplyInput(v, d, k) ==
    VAdd(v, VScale(Vec(d.x * input_scale, d.y * input_scale), k, DeltaDen))

\* (mutant of Clamp: the velocity is left as the input made it)
ClampNever(v, before2) == v

\* lines 197-199: v is the velocity after the input, before2 the square of
\* magnitude_before
Clamp(v, before2) ==
    IF ~v.nan /\ Mag2(v) > max_vel * max_vel /\ Mag2(v) > before2
    THEN NormalizeTimes(v, <<before2, 1>>)
    ELSE v

\* lines 189-199: the velocity after drag, input acceleration and clamp
AdjustVelocity(v, d, k) ==
    LET dragged == ApplyDrag(v, k)
    IN  IF dragged.nan THEN NaNVec
        ELSE Clamp(ApplyInput(dragged, d, k), Mag2(dragged))

\* reflect_vec(i, n.normalize()) times the squared length of n:
\* i - 2 (n . i) n / |n|^2, kept exact by leaving out the division
ReflectVec(i, n) ==
    LET nn == Mag2(n)
        ni == Dot(n, i)
    IN  Vec(i.x * nn - 2 * ni * n.x, i.y * nn - 2 * ni * n.y)

\* lines 215-218: the velocity after the bounce off the obstacle at
\* collision_pos.  normal_vector is NaN when the player is on the obstacle's
\* centre, and the reflection of a zero velocity cannot be normalized.
Bounce(v, p, collision_pos) ==
    LET normal_vector == VSub(collision_pos, p)       \* before .normalize()
        surface_vector == Vec(-normal_vector.y, normal_vector.x)
    IN  IF v.nan \/ normal_vector.nan
           \/ (normal_vector.x = 0 /\ normal_vector.y = 0)
        THEN NaNVec
        ELSE LET r == ReflectVec(v, surface_vector)
             IN  NormalizeTimes(Vec(-r.x, -r.y), <<bounce_vel * bounce_vel, 1>>)

\* lines 225-227: ((goal - pos).normalize() * delta).normalize() * win_vel * delta
GoalPull(p, k) ==
    IF k = 0 THEN NaNVec            \* the inner product is the zero vector
    ELSE NormalizeTimes(VSub(goal_start_pos, p),
             <<(win_vel[1] * k) * (win_vel[1] * k),
               (win_vel[2] * DeltaDen) * (win_vel[2] * DeltaDen)>>)

\* lines 223-224: goal_distance < PLAYER_RADIUS + GOAL_RADIUS
AlmostToGoal(p) ==
    DistanceLess(p, goal_start_pos, PLAYER_RADIUS + GOAL_RADIUS)

\* (mutant of ReachedGoal: the player's radius is left out)
ReachedGoalNoPlayerRadius(p) ==
    /\ ~p.nan
    /\ 9 * Distance2(p, goal_start_pos) < GOAL_RADIUS * GOAL_RADIUS

\* line 231: goal_distance < (PLAYER_RADIUS + GOAL_RADIUS) / 3.
ReachedGoal(p) ==
    /\ ~p.nan
    /\ 9 * Distance2(p, goal_start_pos)
         < (PLAYER_RADIUS + GOAL_RADIUS) * (PLAYER_RADIUS + GOAL_RADIUS)

\* (mutant of OutOfBounds: the player's diameter in place of its radius)
OutOfBoundsByDiameter(p) ==
    /\ ~p.nan
    /\ \/ p.x < -Unit - 2 * PLAYER_RADIUS
       \/ p.x > Unit + 2 * PLAYER_RADIUS
       \/ p.y < -Unit - 2 * PLAYER_RADIUS
       \/ p.y > Unit + 2 * PLAYER_RADIUS

\* lines 242-245
OutOfBounds(p) ==
    /\ ~p.nan
    /\ \/ p.x < -Unit - PLAYER_RADIUS
       \/ p.x > Unit + PLAYER_RADIUS
       \/ p.y < -Unit - PLAYER_RADIUS
       \/ p.y > Unit + PLAYER_RADIUS

\* (mutant of CollisionCue: the test is on the life before the decrement)
CollisionCueBeforeDecrement(l) == IF l + 1 = 1 THEN "warning_one_life" ELSE "bounce"

\* lines 204-213: the cue played on a collision that leaves l lives
CollisionCue(l) == IF l = 1 THEN "warning_one_life" ELSE "bounce"

\* (mutant of DeadByLife: a collision never ends the run)
DeadNever(l) == FALSE

\* (mutant of DeadByLife: dead only below zero)
DeadBelowZero(l) == l < 0

\* lines 205-207
DeadByLife(l) == l <= 0

\* (mutant of Frame: the position is integrated first, and the collision and
\* the win are decided on the position after the integration)
FrameChecksAfterMove(k, d) ==
    /\ pc = "gameloop"
    /\ LET v1 == AdjustVelocity(vel, d, k)
           new_pos == VAdd(player_pos, VScale(v1, k, DeltaDen))
           maybe_collision == DetectCollision(new_pos, obstacles)
           hit == maybe_collision # <<>>
           life1 == IF hit THEN life - 1 ELSE life
           won == ReachedGoal(new_pos)
           dead == (hit /\ DeadByLife(life1)) \/ OutOfBounds(new_pos)
       IN  /\ life' = life1
           /\ vel' = IF hit THEN Bounce(v1, new_pos, maybe_collision[1]) ELSE v1
           /\ player_pos' = new_pos
           /\ events' = <<"draw">>
           /\ reason' = IF won THEN "Won" ELSE IF dead THEN "Died" ELSE "None"
           /\ pc' = IF won \/ dead THEN "exit" ELSE "gameloop"
    /\ delta' = k
    /\ UNCHANGED <<rng, pos, prev_positions, obstacles>>

\* (mutant of Frame: the query of line 177 without its Player filter, so that
\* the integration of line 238 moves every Position of the world)
FrameMovesEveryPosition(k, d) ==
    /\ pc = "gameloop"
    /\ LET v == AdjustVelocity(vel, d, k)
           move(p) == VAdd(p, VScale(v, k, DeltaDen))
       IN  /\ vel' = v
           /\ player_pos' = move(player_pos)
           /\ obstacles' = [i \in 1..Len(obstacles) |-> move(obstacles[i])]
    /\ delta' = k
    /\ events' = <<"draw">>
    /\ UNCHANGED <<pc, rng, pos, prev_positions, life, reason>>

\* lines 140-311 without a Quit event
Frame(k, d) ==
    /\ pc = "gameloop"
    /\ LET maybe_collision == DetectCollision(player_pos, obstacles)
           hit == maybe_collision # <<>>
           v1 == AdjustVelocity(vel, d, k)
           life1 == IF hit THEN life - 1 ELSE life
           cue == IF hit THEN <<CollisionCue(life1)>> ELSE <<>>
           v2 == IF hit THEN Bounce(v1, player_pos, maybe_collision[1]) ELSE v1
           near == AlmostToGoal(player_pos)
           v3 == IF near THEN VAdd(v2, GoalPull(player_pos, k)) ELSE v2
           won == ReachedGoal(player_pos)
           new_pos == VAdd(player_pos, VScale(v3, k, DeltaDen))
           dead == (hit /\ DeadByLife(life1)) \/ OutOfBounds(new_pos)
       IN  /\ life' = life1
           /\ vel' = v3
           /\ delta' = k
           /\ IF won
              THEN /\ player_pos' = player_pos
                   /\ events' = cue \o <<"win">>
                   /\ reason' = "Won"
                   /\ pc' = "exit"
              ELSE /\ player_pos' = new_pos
                   /\ events' = cue \o <<"draw">> \o
                                   (IF dead THEN <<"death">> ELSE <<>>)
                   /\ reason' = IF dead THEN "Died" ELSE "None"
                   /\ pc' = IF dead THEN "exit" ELSE "gameloop"
    /\ UNCHANGED <<rng, pos, prev_positions, obstacles>>

\* (mutant of Quit: the drag of line 189 is applied before the loop is left)
QuitAfterDrag(k) ==
    /\ pc = "gameloop"
    /\ delta' = k
    /\ vel' = ApplyDrag(vel, k)
    /\ events' = <<>>
    /\ reason' = "Quit"
    /\ pc' = "exit"
    /\ UNCHANGED <<rng, pos, prev_positions, obstacles, player_pos, life>>

\* lines 140-147: a Quit event among the frame's events
Quit(k) ==
    /\ pc = "gameloop"
    /\ delta' = k
    /\ events' = <<>>
    /\ reason' = "Quit"
    /\ pc' = "exit"
    /\ UNCHANGED <<rng, pos, prev_positions, obstacles, player_pos, vel, life>>

----------------------------------------------------------------------------
(* Bounds of the model.                                                    *)

MaxDelta == 5      \* the longest frame time, in 1/4 s
MaxSeed == 8       \* seeds 0..MaxSeed of the generator, for the layout alone

\* Frame times: none, a quarter of a second, and a long frame
Deltas == {0, 1, MaxDelta}
Directions == {Vec(0, 0), Vec(1, -1)}

InitWith(seeds) ==
    /\ pc = "layout"
    /\ rng \in {<<s, 0>> : s \in seeds}
    /\ pos = player_start_pos
    /\ prev_positions = <<>>
    /\ obstacles = <<>>
    /\ player_pos = player_start_pos
    /\ vel = Vec(0, 0)
    /\ life = LIFE_MAX
    /\ delta = 0
    /\ reason = "None"
    /\ events = <<>>

\* The whole program, for the generator's stream 0
Init == InitWith({0})

Next ==
    \/ Sample
    \/ Accept
    \/ \E k \in Deltas, d \in Directions : Frame(k, d)
    \/ \E k \in Deltas : Quit(k)

Spec == Init /\ [][Next]_vars

\* The layout loop alone, for every seed
InitLayout == InitWith(0..MaxSeed)

NextLayout ==
    \/ Sample
    \/ Accept

SpecLayout == InitLayout /\ [][NextLayout]_vars

\* The layout loop keeps running: the program takes its next step
SpecLayoutFair == SpecLayout /\ WF_vars(NextLayout)

(* One frame of the game loop from a state in which the player has come     *)
(* inside the collision radius of an obstacle that lies as near to the goal *)
(* as the layout loop allows: at (22, -29), with the goal at (36, -36).  The *)
(* layout is one the loop can produce: InitFrame puts it through the loop's *)
(* own condition.  The player is on the line through the obstacle's centre  *)
(* and the goal, which Spec, where it stays on the line from its start to   *)
(* the goal, does not reach.                                                *)
FrameObstacle == Vec(22, -29)

FrameLayout ==
    << FrameObstacle,
       Vec(-16, 0),  Vec(0, 0),  Vec(16, 0),  Vec(32, 0),
       Vec(-16, 16), Vec(0, 16), Vec(16, 16), Vec(32, 16),
       Vec(-16, 32), Vec(0, 32), Vec(16, 32), Vec(32, 32),
       Vec(-48, 0),  Vec(-32, 0), Vec(-48, -16) >>

\* The grid points of that line inside the obstacle's collision radius
FrameStarts ==
    {p \in {Vec(FrameObstacle.x + 2 * t, FrameObstacle.y - t) :
                t \in (-OBSTACLE_RADIUS - PLAYER_RADIUS)
                         ..(OBSTACLE_RADIUS + PLAYER_RADIUS)} :
        DetectCollision(p, FrameLayout) # <<>>}

\* The player moves along the line, to the goal or away from it
FrameVelocities == {Vec(12, -6), Vec(-12, 6)}

InitFrame ==
    /\ Len(FrameLayout) = NumObstacles
    /\ \A i \in 1..NumObstacles :
          ~Rejected(FrameLayout[i], SubSeq(FrameLayout, 1, i - 1))
    /\ pc = "gameloop"
    /\ rng = <<MaxSeed + 1, 2 * NumObstacles>>
    /\ pos = player_start_pos
    /\ prev_positions = FrameLayout
    /\ obstacles = FrameLayout
    /\ player_pos \in FrameStarts
    /\ vel \in FrameVelocities
    /\ life \in 1..LIFE_MAX
    /\ delta = 0
    /\ reason = "None"
    /\ events = <<>>

\* The one frame: events is empty until a frame has been simulated
NextFrame ==
    /\ events = <<>>
    /\ \/ \E k \in Deltas, d \in Directions : Frame(k, d)
       \/ \E k \in Deltas : Quit(k)

SpecFrame == InitFrame /\ [][NextFrame]_vars

----------------------------------------------------------------------------
(* Properties.                                                             *)

\* A step of the game loop that simulates a frame (no Quit event)
SimulatedFrame == pc = "gameloop" /\ reason' # "Quit"

\* The player's position is within PLAYER_RADIUS + OBSTACLE_RADIUS of an obstacle
Overlaps(p) ==
    /\ ~p.nan
    /\ \E i \in 1..Len(obstacles) :
          (p.x - obstacles[i].x) * (p.x - obstacles[i].x)
            + (p.y - obstacles[i].y) * (p.y - obstacles[i].y)
          < (PLAYER_RADIUS + OBSTACLE_RADIUS) * (PLAYER_RADIUS + OBSTACLE_RADIUS)

Has(e, c) == \E i \in 1..Len(e) : e[i] = c

\* C1: in every simulated frame life is decremented by exactly 1 if the
\* player's pre-movement position overlaps at least one obstacle, and is left
\* unchanged if it overlaps none.
C1_LifeDecrement ==
    [][SimulatedFrame =>
          life' = IF Overlaps(player_pos) THEN life - 1 ELSE life]_vars

\* C1 witness: the first collision frame of a run has just taken one life
C1_Witness ==
    /\ life = LIFE_MAX - 1
    /\ Has(events, "bounce")
    /\ reason = "None"

\* C2: in every reachable state, the terminating frame's included,
\* 0 <= life <= LIFE_MAX, and life never increases from one frame to the next.
C2_LifeBounded ==
    /\ [](0 <= life /\ life <= LIFE_MAX)
    /\ [][life' <= life]_vars

\* C2 witness: a run that has ended on the frame that took the last life
C2_Witness ==
    /\ pc = "exit"
    /\ reason = "Died"
    /\ life = 0

\* The position is within (PLAYER_RADIUS + GOAL_RADIUS) / 3 of the goal
InWinRadius(p) ==
    /\ ~p.nan
    /\ 9 * ((p.x - goal_start_pos.x) * (p.x - goal_start_pos.x)
            + (p.y - goal_start_pos.y) * (p.y - goal_start_pos.y))
         < (PLAYER_RADIUS + GOAL_RADIUS) * (PLAYER_RADIUS + GOAL_RADIUS)

\* C3 as stated: once the player's position is within the win radius the run
\* terminates as Won; no run whose player position has reached that radius
\* terminates as Died.
C3_Original == InWinRadius(player_pos) => reason # "Died"

\* C3 as amended: a simulated frame that starts with the player's position
\* within the win radius terminates the run as Won; a run can end as Died with
\* the player inside the win radius only when the frame whose integration
\* brought it there also took the last life.
C3_WonFromWinRadius ==
    /\ [][(SimulatedFrame /\ InWinRadius(player_pos))
             => (reason' = "Won" /\ pc' = "exit")]_vars
    /\ []((InWinRadius(player_pos) /\ reason = "Died") => life = 0)

\* C3 witness: a run that has ended as Won, the player within the win radius
C3_Witness ==
    /\ pc = "exit"
    /\ reason = "Won"
    /\ InWinRadius(player_pos)

\* A coordinate of the position is beyond +/-(1 + PLAYER_RADIUS)
OutOfRange(p) ==
    /\ ~p.nan
    /\ (Abs(p.x) > Unit + PLAYER_RADIUS \/ Abs(p.y) > Unit + PLAYER_RADIUS)

\* C4: a frame whose integration puts a coordinate of the player beyond
\* +/-(1 + PLAYER_RADIUS) ends the run as Died at the end of that frame,
\* whatever the life count, so that no simulated frame starts from such a
\* position: the position is out of range only in a run that has ended as Died.
C4_OutOfBoundsDies ==
    OutOfRange(player_pos) => (pc = "exit" /\ reason = "Died")

\* C4 witness: a run ended by the boundary with life left
C4_Witness ==
    /\ OutOfRange(player_pos)
    /\ reason = "Died"
    /\ life > 0

\* The velocity a frame with frame time k and input direction d has after its
\* drag, acceleration and clamp steps, and then after its bounce off the
\* obstacle at o
AfterClamp(k, d) == AdjustVelocity(vel, d, k)
AfterBounce(k, d, o) == Bounce(AfterClamp(k, d), player_pos, o)

\* The magnitude of v is at most m, to within one grid step of rounding
SpeedAtMost(v, m) == ~v.nan /\ Mag2(v) <= (m + 1) * (m + 1)

\* C5 as stated: in every frame the velocity magnitude after the drag,
\* acceleration and clamp steps is at most max_vel, whatever the input
\* direction and the frame time.
C5_Original ==
    pc = "gameloop" =>
        \A k \in Deltas, d \in Directions :
            AfterClamp(k, d).nan \/ SpeedAtMost(AfterClamp(k, d), max_vel)

\* C5 as amended: in every frame that starts with a velocity magnitude of at
\* most max_vel and has a frame time of at most 2.5 s (drag factor
\* 1 - drag * delta within [-1, 1]), the velocity magnitude after the drag,
\* acceleration and clamp steps is at most max_vel, whatever the input
\* direction.
C5_SpeedCapFromBelow ==
    (pc = "gameloop" /\ ~vel.nan /\ Mag2(vel) <= max_vel * max_vel) =>
        \A k \in Deltas, d \in Directions :
            (drag[1] * k <= 2 * drag[2] * DeltaDen)
                => SpeedAtMost(AfterClamp(k, d), max_vel)

\* C5 witness: the player moves at no more than max_vel and an input of the
\* next frame would push the speed over it, so that the clamp acts
C5_Witness ==
    /\ pc = "gameloop"
    /\ ~vel.nan
    /\ 0 < Mag2(vel)
    /\ Mag2(vel) <= max_vel * max_vel
    /\ \E k \in Deltas, d \in Directions :
          /\ Mag2(ApplyInput(ApplyDrag(vel, k), d, k)) > max_vel * max_vel
          /\ Mag2(AfterClamp(k, d)) > 0

\* C6: on every collision frame the velocity after the bounce has a component
\* that is not negative along the direction from the obstacle's centre to the
\* player, whatever the velocity before the bounce.  (A NaN velocity is not
\* counted against the claim here.)
C6_BounceAway ==
    (pc = "gameloop" /\ Overlaps(player_pos)) =>
        \A k \in Deltas, d \in Directions :
            LET o == DetectCollision(player_pos, obstacles)[1]
                v == AfterBounce(k, d, o)
            IN  v.nan \/ Dot(v, VSub(player_pos, o)) >= 0

\* C7: on every collision frame the velocity after the bounce has the
\* magnitude bounce_vel (to within one grid step of rounding), for every
\* velocity before the collision and every position inside the collision
\* radius.
C7_BounceSpeed ==
    (pc = "gameloop" /\ Overlaps(player_pos)) =>
        \A k \in Deltas, d \in Directions :
            LET o == DetectCollision(player_pos, obstacles)[1]
                v == AfterBounce(k, d, o)
            IN  /\ ~v.nan
                /\ (bounce_vel - 1) * (bounce_vel - 1) <= Mag2(v)
                /\ Mag2(v) <= (bounce_vel + 1) * (bounce_vel + 1)

\* C8: on a collision frame the cue played is warning_one_life exactly when
\* the life left after the decrement is 1, and bounce otherwise; a collision
\* at life = 1 brings life to 0, ends the run as Died and plays the death cue
\* in that frame.
C8_CollisionCues ==
    [][(SimulatedFrame /\ Overlaps(player_pos)) =>
          /\ Has(events', "warning_one_life") <=> (life' = 1)
          /\ Has(events', "bounce") <=> (life' # 1)
          /\ (life = 1) =>
                (life' = 0 /\ reason' = "Died" /\ pc' = "exit"
                           /\ Has(events', "death"))]_vars

\* C8 witness: the run has ended on a collision at life = 1
C8_Witness ==
    /\ life = 0
    /\ reason = "Died"
    /\ events = <<"bounce", "draw", "death">>

\* C9: a simulated frame with delta = 0 leaves the player's position as it
\* was, for every position, velocity and input direction.
C9_ZeroDeltaKeepsPosition ==
    [][(SimulatedFrame /\ delta' = 0) => player_pos' = player_pos]_vars

\* a and b are at a squared distance of at least obstacle_spacing
Spaced(a, b) ==
    ((a.x - b.x) * (a.x - b.x) + (a.y - b.y) * (a.y - b.y)) * obstacle_spacing[2]
        >= obstacle_spacing[1] * Unit * Unit

\* C10: the obstacles the layout loop has accepted are at a squared distance
\* of at least obstacle_spacing from each other, from the player's start and
\* from the goal; the loop's first candidate, the player's start, is never
\* accepted.
C10_LayoutSpacing ==
    /\ \A i \in 1..Len(prev_positions) :
          /\ Spaced(prev_positions[i], player_start_pos)
          /\ Spaced(prev_positions[i], goal_start_pos)
          /\ prev_positions[i] # player_start_pos
          /\ \A j \in 1..(i - 1) : Spaced(prev_positions[i], prev_positions[j])
    /\ obstacles = prev_positions

\* C10 witness: all the obstacles are placed, after some candidates were rejected
C10_Witness ==
    /\ pc = "gameloop"
    /\ Len(prev_positions) = NumObstacles
    /\ rng[2] > 2 * NumObstacles

\* C11: on a frame in which a Quit event is received the game loop is left
\* with reason Quit and no part of the simulation step runs: life, the player's
\* position and the player's velocity are as they were, and no bounce,
\* warning_one_life, win or death cue is played.
C11_QuitShortCircuits ==
    [][(pc = "gameloop" /\ reason' = "Quit") =>
          /\ pc' = "exit"
          /\ life' = life
          /\ player_pos' = player_pos
          /\ vel' = vel
          /\ ~Has(events', "bounce") /\ ~Has(events', "warning_one_life")
          /\ ~Has(events', "win") /\ ~Has(events', "death")]_vars

\* C11 witness: a run left by Quit in mid-game, the player moving and hurt
C11_Witness ==
    /\ pc = "exit"
    /\ reason = "Quit"
    /\ life < LIFE_MAX
    /\ ~vel.nan
    /\ Mag2(vel) > 0

\* C12: the terminal states are absorbing.  The game loop has been left exactly
\* when the reason is Quit, Won or Died; from then on no simulation step runs,
\* so that life, the player's position and the player's velocity never change
\* again; and no frame is simulated that starts with life = 0.
C12_TerminalAbsorbing ==
    /\ [](reason \in {"Quit", "Won", "Died"} <=> pc = "exit")
    /\ [][reason # "None" =>
             (pc' = "exit" /\ reason' = reason /\ life' = life
                /\ player_pos' = player_pos /\ vel' = vel)]_vars
    /\ [][SimulatedFrame => life > 0]_vars

\* C12 witness: the run has ended as Died with no life left while the player
\* still overlaps an obstacle: a further frame would be a further collision
C12_Witness ==
    /\ pc = "exit"
    /\ reason = "Died"
    /\ life = 0
    /\ Overlaps(player_pos)

C14_DyingFrameSkipsGoalChecks ==
    [][(SimulatedFrame /\ Overlaps(player_pos) /\ life = 1) =>
          /\ reason' = "Died"
          /\ ~Has(events', "win")
          /\ \E d \in Directions :
                vel' = AfterBounce(delta', d,
                                   DetectCollision(player_pos, obstacles)[1])]_vars

\* Every cue c of the frame's events comes after a draw of the frame
DrawnBefore(e, c) ==
    \A i \in 1..Len(e) : e[i] = c => \E j \in 1..(i - 1) : e[j] = "draw"

\* C15: every simulated frame hands the positions to the presentation layer
\* (drawstart ... drawfinish) before the loop can be left: the terminating
\* frame of a Won run and of a Died run is drawn, and its win or death cue is
\* played only after that draw.
C15_EveryFrameDrawn ==
    [][SimulatedFrame =>
          /\ Has(events', "draw")
          /\ DrawnBefore(events', "win")
          /\ DrawnBefore(events', "death")]_vars

\* The magnitude of v is at most the square root of m2, to within one grid
\* step of rounding
SpeedAtMostRoot(v, m2) == ~v.nan /\ Mag2(v) <= (ISqrt(m2) + 2) * (ISqrt(m2) + 2)

\* C16: after the clamp step of any frame the velocity magnitude is at most
\* max_vel if the magnitude after the drag, before the acceleration, was at
\* most max_vel, and at most that magnitude otherwise, for every input
\* direction and frame time.
C16_ClampBound ==
    pc = "gameloop" =>
        \A k \in Deltas, d \in Directions :
            LET dragged == ApplyDrag(vel, k)
                v == AfterClamp(k, d)
            IN  /\ ~dragged.nan
                /\ IF Mag2(dragged) <= max_vel * max_vel
                   THEN SpeedAtMost(v, max_vel)
                   ELSE SpeedAtMostRoot(v, Mag2(dragged))

\* C17: no simulation step normalizes a zero-length vector: the player's
\* velocity and position are defined (not NaN) after every step, for every
\* reachable position, velocity, input direction and frame time.
C17_NeverNaN == ~vel.nan /\ ~player_pos.nan

\* The velocity a frame with frame time k and input direction d leaves, the
\* collision and the attraction decided on the position p
VelocityDecidedAt(p, k, d) ==
    LET maybe_collision == DetectCollision(p, obstacles)
        v2 == IF maybe_collision # <<>>
              THEN AfterBounce(k, d, maybe_collision[1])
              ELSE AfterClamp(k, d)
    IN  IF AlmostToGoal(p) THEN VAdd(v2, GoalPull(p, k)) ELSE v2

\* C18: the collision detection and both goal checks of a frame use the
\* player's position from before the frame's integration, and the velocity is
\* updated before the integration.  A life is taken exactly when the position
\* before the integration overlaps an obstacle, the run ends as Won exactly
\* when that position is within the win radius, and the velocity is bounced
\* and attracted as that position decides; so a position that enters a
\* collision radius or the win radius through frame n's integration takes no
\* life and ends no run as Won before frame n + 1.  The displacement of a frame
\* that integrates (every simulated frame that does not end as Won) is its
\* frame time times the velocity as the frame has updated it.
C18_ChecksBeforeIntegration ==
    [][SimulatedFrame =>
          /\ (life' = life - 1) <=> Overlaps(player_pos)
          /\ (life' = life) <=> ~Overlaps(player_pos)
          /\ (reason' = "Won") <=> InWinRadius(player_pos)
          /\ \E d \in Directions : vel' = VelocityDecidedAt(player_pos, delta', d)
          /\ (reason' # "Won") =>
                player_pos' = VAdd(player_pos, VScale(vel', delta', DeltaDen))]_vars

\* C18 witness: the integration of the latest frame has brought the player
\* within the win radius, and the run has not ended
C18_Witness ==
    /\ pc = "gameloop"
    /\ reason = "None"
    /\ delta > 0
    /\ InWinRadius(player_pos)

\* Some point that line 126 can sample is accepted as the next obstacle
SomeCandidateAccepted ==
    \E x \in (-Unit)..(Unit - 1), y \in (-Unit)..(Unit - 1) :
        ~Rejected(Vec(x, y), prev_positions)

NoWinInsideCollision(o) ==
    LET w == (PLAYER_RADIUS + GOAL_RADIUS) \div 3 + 1
    IN  \A x \in (goal_start_pos.x - w)..(goal_start_pos.x + w),
           y \in (goal_start_pos.y - w)..(goal_start_pos.y + w) :
            ~(DetectCollision(Vec(x, y), <<o>>) # <<>> /\ ReachedGoal(Vec(x, y)))

\* C20: for every obstacle position the layout loop can accept (at a squared
\* distance of at least obstacle_spacing from the goal) no player position is
\* both within the collision radius of the obstacle and within the win radius
\* of the goal; so the player never is in such a position, and no frame both
\* takes a life and ends the run as Won.
C20_NoCollisionInWinRadius ==
    /\ [](pc = "layout" =>
             LET r == 2 * PLAYER_RADIUS + OBSTACLE_RADIUS + GOAL_RADIUS + 1
             IN  \A x \in (goal_start_pos.x - r)..(goal_start_pos.x + r),
                    y \in (goal_start_pos.y - r)..(goal_start_pos.y + r) :
                     ~Rejected(Vec(x, y), prev_positions)
                         => NoWinInsideCollision(Vec(x, y)))
    /\ [](~(Overlaps(player_pos) /\ InWinRadius(player_pos)))
    /\ [][SimulatedFrame => ~(life' = life - 1 /\ reason' = "Won")]_vars

\* C20 witness: a run has ended as Won, with no cue of a collision in its last
\* frame, next to an obstacle that is as near to the goal as the spacing allows
\* (nearer than the collision radius plus the goal-attraction radius)
C20_Witness ==
    /\ reason = "Won"
    /\ events = <<"win">>
    /\ \E i \in 1..Len(obstacles) :
          DistanceLess(obstacles[i], goal_start_pos,
                       2 * PLAYER_RADIUS + OBSTACLE_RADIUS + GOAL_RADIUS)

====
